---- MODULE Spec2Model ----
(***************************************************************************)
(* Model of modules/network/networker.go: the networker facade             *)
(* (ApplyNetResource / DeleteNetResource), createNetworkResource,          *)
(* deleteNetResource and configureWG, run by concurrent callers of the     *)
(* zbus object against one kernel (bridges, namespaces, veth pairs,        *)
(* wireguard interfaces) and one key storage directory.                    *)
(*                                                                         *)
(* Every call of a kernel or key-file primitive is one atomic step of the  *)
(* calling goroutine; the Go code holds no lock, so steps of different     *)
(* callers interleave freely.                                              *)
(***************************************************************************)
EXTENDS Integers, Sequences, FiniteSets, TLC

\* Number of ApplyNetResource / DeleteNetResource calls issued in one behaviour.
MaxCalls == 3

\* Goroutines of the daemon that serve calls of the networker object.
Callers == {"c1", "c2"}
Before(d, c) == d = "c1" /\ c = "c2"

\* ------------------------------------------------------------------ data
\* The zero value of modules.NodeID: what a field that is never assigned holds.
ZeroNodeID == "zero"
\* The identity of the node the daemon runs on.
NodeIdentity == "node1"

\* modules.Connected values. A net.IP is a byte slice of length 4 or 16 (an
\* IPv4 address may be held in either form), or empty.
ConnTypeWireguard == "wireguard"
IPv6Peer == [fam |-> "v6", len |-> 16, s |-> "2001:db8::1"]
IPv4Peer == [fam |-> "v4", len |-> 4, s |-> "10.0.0.5"]
NilIP == [fam |-> "none", len |-> 0, s |-> "<nil>"]
Conn(type, k, ip) == [Type |-> type, Connection |-> [Key |-> k, IP |-> ip, Port |-> "51820"]]

\* resource.Connected: a tunnel peer with an IPv6 address, a peer of another
\* type, a tunnel peer with an IPv4 address.
Mesh == <<Conn(ConnTypeWireguard, "pubA", IPv6Peer), Conn("other", "pubB", IPv6Peer),
          Conn(ConnTypeWireguard, "pubC", IPv4Peer)>>

NoRes == [NodeID |-> "none", Prefix |-> "none", LinkLocal |-> "none", Connected |-> <<>>]
Res(node, prefix) ==
    [NodeID |-> node, Prefix |-> prefix, LinkLocal |-> <<"ll", prefix>>, Connected |-> Mesh]

\* modules.Network values handed to the networker: one network, as its list of
\* resources stands at different times. The resource with prefix "p1" is the
\* one of this node; the resource with prefix "p0" carries an empty NodeID.
NetA == [NetID |-> "net1", AllocationNR |-> 0,
         Resources |-> <<Res(ZeroNodeID, "p0"), Res("node1", "p1")>>]
NetB == [NetID |-> "net1", AllocationNR |-> 0,
         Resources |-> <<Res("node1", "p1"), Res("node2", "p2")>>]
NetC == [NetID |-> "net1", AllocationNR |-> 0,
         Resources |-> <<Res("node2", "p2"), Res(ZeroNodeID, "p0")>>]
NoNet == [NetID |-> "none", AllocationNR |-> 0, Resources |-> <<>>]
Networks == {NetA, NetB, NetC}

\* zosip.NewNibble(prefix, allocNr) and the names it derives: deterministic
\* and distinct per kind and per (prefix, allocNr).
NewNibble(prefix, allocNr) == <<prefix, allocNr>>
Hex(nibble) == <<"hex", nibble[1], nibble[2]>>
NetworkName(nibble) == <<"n", nibble[1], nibble[2]>>
BridgeName(nibble) == <<"b", nibble[1], nibble[2]>>
WiregardName(nibble) == <<"wg", nibble[1], nibble[2]>>
VethName(nibble) == <<"veth", nibble[1], nibble[2]>>
\* nibble.ToV4() formatted as 10.a.b.1/24, and the resource prefix as a /64.
AddrV4(nibble) == <<"10.a.b.1/24", nibble[1], nibble[2]>>
AddrV6(prefix) == <<"prefix/64", prefix>>
\* filepath.Join(storageDir, nibble.Hex())
StoragePath(nibble) == <<"storageDir", Hex(nibble)>>

\* The nibbles of all resources of the networks.
AllNibbles ==
    UNION {{NewNibble(n.Resources[i].Prefix, n.AllocationNR) : i \in 1..Len(n.Resources)} :
           n \in Networks}

\* ------------------------------------------------------------------ errors
Nil == "nil"
EIO == "EIO"
EEXIST == "EEXIST"
ENOENT == "ENOENT"
NoRet == <<"pending">>
RetNil == <<"nil">>
ErrNoLocal == <<"not network resource for this node">>
Err(step, kind) == <<step, kind>>

NoKey == <<"nokey">>
NewKey(n) == <<"key", n>>
Unconfigured == [key |-> NoKey, addr |-> <<"none">>, peers |-> <<>>]

VARIABLES
    \* kernel and file system
    bridges,      \* names of the bridges on the host
    namespaces,   \* names of the network namespaces
    veths,        \* veth pairs: [ns, name, host, addrs, master]
    wgHost,       \* names of the wireguard interfaces on the host
    wgNs,         \* wireguard interfaces inside namespaces: [ns, name, conf]
    keyFiles,     \* storage path -> stored private key, or NoKey
    \* the networker object
    nodeID,       \* networker.nodeID
    \* one in-progress or returned call per caller
    pc,           \* the step the call is at, "idle", or "done" once it returned
    op, net, res, \* the call: "apply" or "delete", its network, the resource found
    key,          \* configureWG's key
    hostIface,    \* createNetworkResource's hostIface.Name
    ret,          \* the error the call returned
    log,          \* the primitives the call ran so far, each with its outcome
    cid,          \* the number of the call
    pre,          \* for a delete: prev when the call was issued
    \* history
    calls,        \* number of calls issued so far
    prev,         \* the call that returned last: <<op, "nil" | "no resource" | "failed">>
    overlap,      \* TRUE once a call was issued while another was in flight
    lastKey,      \* storage path -> key of the apply that returned nil last, or NoKey
    \* the identity daemon (identityd)
    idpc,         \* the statement main is at
    boot,         \* upgrade.DetectBootMethod()
    cancelled,    \* the signal context of main is done
    installed,    \* the version upgrader.Version() reports
    events,       \* what main did so far, in order
    rounds        \* rounds of the upgrade loop begun so far

kernel == <<bridges, namespaces, veths, wgHost, wgNs, keyFiles>>
identityd == <<idpc, boot, cancelled, installed, events, rounds>>
vars == <<bridges, namespaces, veths, wgHost, wgNs, keyFiles, nodeID,
          pc, op, net, res, key, hostIface, ret, log, cid, pre,
          calls, prev, overlap, lastKey,
          idpc, boot, cancelled, installed, events, rounds>>

NoCall == <<"none", "none">>
NoIface == <<"none">>
NoMaster == <<"none">>

\* What a step of a call in progress never changes.
frameK == <<nodeID, calls, overlap, op, net, res, cid, pre, identityd>>
frame == <<frameK, lastKey>>

InFlight(c) == pc[c] \notin {"idle", "done"}

\* The nibble of the resource caller c works on.
Nibble(c) == NewNibble(res[c].Prefix, net[c].AllocationNR)

\* NewNetworker sets storageDir and netResAlloc only: nodeID keeps its zero value.
NewNetworker == nodeID = ZeroNodeID

Init ==
    /\ bridges = {} /\ namespaces = {} /\ veths = {} /\ wgHost = {} /\ wgNs = {}
    /\ keyFiles = [p \in {StoragePath(nb) : nb \in AllNibbles} |-> NoKey]
    /\ NewNetworker
    /\ pc = [c \in Callers |-> "idle"]
    /\ op = [c \in Callers |-> "none"]
    /\ net = [c \in Callers |-> NoNet]
    /\ res = [c \in Callers |-> NoRes]
    /\ key = [c \in Callers |-> NoKey]
    /\ hostIface = [c \in Callers |-> NoIface]
    /\ ret = [c \in Callers |-> NoRet]
    /\ log = [c \in Callers |-> <<>>]
    /\ cid = [c \in Callers |-> 0]
    /\ pre = [c \in Callers |-> NoCall]
    /\ calls = 0
    /\ prev = NoCall
    /\ overlap = FALSE
    /\ lastKey = [p \in {StoragePath(nb) : nb \in AllNibbles} |-> NoKey]
    /\ idpc = "main"
    /\ boot = "unknown"
    /\ cancelled = FALSE
    /\ installed = 0
    /\ events = <<>>
    /\ rounds = 0

\* ------------------------------------------------------------------ steps and phases
CreateOrder ==
    <<"bridge.New", "namespace.Create", "ip.SetupVeth", "netlink.LinkByName(container)",
      "netlink.AddrAdd(v6)", "netlink.AddrAdd(v4)", "netlink.LinkByName(host)",
      "bridge.AttachNic", "wireguard.New", "namespace.SetLink">>
CreateSteps == {CreateOrder[i] : i \in 1..Len(CreateOrder)}
KeySteps == {"wireguard.LoadKey", "wireguard.GenerateKey"}
ConfigureSteps == {"namespace.GetByName", "wireguard.GetByName", "wg.Configure"}

\* 1: Builder.Create, 2: key obtain, 3: mesh configuration
Phase(step) == IF step \in CreateSteps THEN 1 ELSE IF step \in KeySteps THEN 2 ELSE 3

Ran(c, step, kind) == \E i \in 1..Len(log[c]) : log[c][i] = <<step, kind>>
HasKey(c) == Ran(c, "wireguard.LoadKey", Nil) \/ Ran(c, "wireguard.GenerateKey", Nil)

\* The entry of the log is a failure of its phase (a failed LoadKey is not:
\* configureWG goes on to GenerateKey).
PhaseFailure(e) == e[2] # Nil /\ e[1] # "wireguard.LoadKey"

\* ------------------------------------------------------------------ control
\* The step `step` ended with `kind` and the call goes on at `next`.
Goto(c, step, kind, next) ==
    /\ pc' = [pc EXCEPT ![c] = next]
    /\ log' = [log EXCEPT ![c] = Append(@, <<step, kind>>)]
    /\ UNCHANGED <<ret, prev>>

\* The call of caller c returns r to its caller.
Return(c, step, kind, r) ==
    /\ pc' = [pc EXCEPT ![c] = "done"]
    /\ log' = [log EXCEPT ![c] = Append(@, <<step, kind>>)]
    /\ ret' = [ret EXCEPT ![c] = r]
    /\ prev' = <<op[c], IF r = RetNil THEN "nil" ELSE "failed">>

\* As StepFailed, but applyNetResource drops the error of createNetworkResource
\* and goes on to configureWG.
StepFailedDropped(c, step, kind) ==
    IF step \in CreateSteps
    THEN Goto(c, step, kind, "LoadKey")
    ELSE Return(c, step, kind, Err(step, kind))

\* createNetworkResource and configureWG: "if err != nil { return err }" after
\* a step; applyNetResource hands the error on unchanged (lines 78-80, 82-84).
StepFailed(c, step, kind) == Return(c, step, kind, Err(step, kind))

\* applyNetResource, lines 78-81: createNetworkResource returned nil.
CreateReturnedNil(c, step) == Goto(c, step, Nil, "LoadKey")

\* applyNetResource, lines 82-85: configureWG returned nil.
ConfigureReturnedNil(c, step) == Return(c, step, Nil, RetNil)

\* ------------------------------------------------------------------ primitives
\* The kernel and key-file primitives the networker consumes (packages bridge,
\* namespace, wireguard, and the veth helper), by their contracts.

\* bridge.New(name): creates the bridge on the host if absent.
bridge_New(name) == bridges' = bridges \cup {name}

\* bridge.Delete(name): the veth ends attached to the bridge lose their master.
bridge_Delete(name) ==
    /\ bridges' = bridges \ {name}
    /\ veths' = {IF v.master = name THEN [v EXCEPT !.master = NoMaster] ELSE v : v \in veths}

\* namespace.Create(name)
namespace_Create(name) == namespaces' = namespaces \cup {name}

\* namespace.Delete(name): the interfaces living inside the namespace go with
\* it, and a veth end takes its peer on the host along.
namespace_Delete(name) ==
    /\ namespaces' = namespaces \ {name}
    /\ veths' = {v \in veths : v.ns # name}
    /\ wgNs' = {w \in wgNs : w.ns # name}

\* ip.SetupVeth(name, mtu, hostNS) run inside namespace ns: the end `name`
\* stays in ns, the peer end is moved to the host under a name of its own.
ip_SetupVeth(ns, name, hostName) ==
    veths' = veths \cup {[ns |-> ns, name |-> name, host |-> hostName,
                          addrs |-> <<>>, master |-> NoMaster]}

\* netlink.AddrAdd(link, addr) on the end `name` inside namespace ns.
netlink_AddrAdd(ns, name, addr) ==
    veths' = {IF v.ns = ns /\ v.name = name
              THEN [v EXCEPT !.addrs = Append(@, addr)] ELSE v : v \in veths}

\* bridge.AttachNic(link, br) on the host end hostName.
bridge_AttachNic(hostName, br) ==
    veths' = {IF v.host = hostName THEN [v EXCEPT !.master = br] ELSE v : v \in veths}

\* wireguard.New(name): a new, unconfigured interface on the host.
wireguard_New(name) == wgHost' = wgHost \cup {name}

\* namespace.SetLink(link, ns): moves the host interface into the namespace.
namespace_SetLink(name, ns) ==
    /\ wgHost' = wgHost \ {name}
    /\ wgNs' = wgNs \cup {[ns |-> ns, name |-> name, conf |-> Unconfigured]}

\* wg.Configure(addr, key, peers) on the interface `name` inside namespace ns.
wireguard_Configure(ns, name, addr, k, peers) ==
    wgNs' = {IF w.ns = ns /\ w.name = name
             THEN [w EXCEPT !.conf = [key |-> k, addr |-> addr, peers |-> peers]]
             ELSE w : w \in wgNs}

\* wireguard.GenerateKey(path): a fresh private key, persisted at path.
wireguard_GenerateKey(path, k) == keyFiles' = [keyFiles EXCEPT ![path] = k]

VethIn(ns, name) == \E v \in veths : v.ns = ns /\ v.name = name
HostVeth(hostName) == \E v \in veths : v.host = hostName
WgIn(ns, name) == \E w \in wgNs : w.ns = ns /\ w.name = name

\* As EnvFail, but the failing call removes the bridge again before it returns.
EnvFailRollback(c, step) ==
    /\ StepFailed(c, step, EIO)
    /\ bridges' = bridges \ {BridgeName(Nibble(c))}
    /\ UNCHANGED <<namespaces, veths, wgHost, wgNs, keyFiles, key, hostIface, frame>>

\* A primitive fails for a reason of the environment and changes nothing.
\* (applyNetResource and its callees return the error at once.)
EnvFail(c, step) ==
    /\ StepFailed(c, step, EIO)
    /\ UNCHANGED <<kernel, key, hostIface, frame>>

\* A primitive fails because of the state it finds, and changes nothing.
Refused(c, step, kind) ==
    /\ StepFailed(c, step, kind)
    /\ UNCHANGED <<kernel, key, hostIface, frame>>

\* ------------------------------------------------------------------ facade
\* The loop of ApplyNetResource / DeleteNetResource over network.Resources.
RECURSIVE FindFrom(_, _, _)
FindFrom(resources, id, i) ==
    IF i > Len(resources) THEN NoRes
    ELSE IF resources[i].NodeID = id THEN resources[i]
    ELSE FindFrom(resources, id, i + 1)
FindResource(network, id) == FindFrom(network.Resources, id, 1)

\* A call is issued and handed to the first goroutine that is free.
Begin(c, o, network, resource) ==
    /\ ~InFlight(c)
    /\ \A d \in Callers : Before(d, c) => InFlight(d)
    /\ calls < MaxCalls
    /\ calls' = calls + 1
    /\ cid' = [cid EXCEPT ![c] = calls + 1]
    /\ op' = [op EXCEPT ![c] = o]
    /\ net' = [net EXCEPT ![c] = network]
    /\ res' = [res EXCEPT ![c] = resource]
    /\ key' = [key EXCEPT ![c] = NoKey]
    /\ hostIface' = [hostIface EXCEPT ![c] = NoIface]
    /\ pre' = [pre EXCEPT ![c] = IF o = "delete" THEN prev ELSE NoCall]
    /\ overlap' = (overlap \/ \E d \in Callers \ {c} : InFlight(d))
    /\ UNCHANGED <<kernel, nodeID, lastKey, identityd>>

ApplyNetResource(c, network) ==
    LET resource == FindResource(network, nodeID) IN
    /\ Begin(c, "apply", network, resource)
    /\ IF resource = NoRes
       THEN /\ pc' = [pc EXCEPT ![c] = "done"]
            /\ log' = [log EXCEPT ![c] = <<>>]
            /\ ret' = [ret EXCEPT ![c] = ErrNoLocal]
            /\ prev' = <<"apply", "no resource">>
       ELSE /\ pc' = [pc EXCEPT ![c] = "BridgeNew"]
            /\ log' = [log EXCEPT ![c] = <<>>]
            /\ ret' = [ret EXCEPT ![c] = NoRet]
            /\ UNCHANGED prev

DeleteNetResource(c, network) ==
    LET resource == FindResource(network, nodeID) IN
    /\ Begin(c, "delete", network, resource)
    /\ IF resource = NoRes
       THEN /\ pc' = [pc EXCEPT ![c] = "done"]
            /\ log' = [log EXCEPT ![c] = <<>>]
            /\ ret' = [ret EXCEPT ![c] = ErrNoLocal]
            /\ prev' = <<"delete", "no resource">>
       ELSE /\ pc' = [pc EXCEPT ![c] = "BridgeDelete"]
            /\ log' = [log EXCEPT ![c] = <<>>]
            /\ ret' = [ret EXCEPT ![c] = NoRet]
            /\ UNCHANGED prev

\* ------------------------------------------------------------------ createNetworkResource
\* line 101: br, err := bridge.New(bridgeName)
BridgeNew(c) ==
    /\ pc[c] = "BridgeNew"
    /\ \/ /\ bridge_New(BridgeName(Nibble(c)))
          /\ Goto(c, "bridge.New", Nil, "NamespaceCreate")
          /\ UNCHANGED <<namespaces, veths, wgHost, wgNs, keyFiles, key, hostIface, frame>>
       \/ EnvFail(c, "bridge.New")

\* line 107: netns, err := namespace.Create(netnsName)
NamespaceCreate(c) ==
    LET ns == NetworkName(Nibble(c)) IN
    /\ pc[c] = "NamespaceCreate"
    /\ \/ /\ ns \notin namespaces
          /\ namespace_Create(ns)
          /\ Goto(c, "namespace.Create", Nil, "SetupVeth")
          /\ UNCHANGED <<bridges, veths, wgHost, wgNs, keyFiles, key, hostIface, frame>>
       \/ /\ ns \in namespaces
          /\ Refused(c, "namespace.Create", EEXIST)
       \/ EnvFail(c, "namespace.Create")

\* lines 150, 113-122: netns.Do(handler) enters the namespace; the handler
\* begins with ip.SetupVeth(vethName, 1500, hostNS) and keeps the host end's name.
SetupVeth(c) ==
    LET ns == NetworkName(Nibble(c))
        name == VethName(Nibble(c))
        hostName == <<"veth", cid[c]>> IN
    /\ pc[c] = "SetupVeth"
    /\ \/ /\ ns \in namespaces
          /\ ~VethIn(ns, name)
          /\ ip_SetupVeth(ns, name, hostName)
          /\ hostIface' = [hostIface EXCEPT ![c] = hostName]
          /\ Goto(c, "ip.SetupVeth", Nil, "LinkByNameContainer")
          /\ UNCHANGED <<bridges, namespaces, wgHost, wgNs, keyFiles, key, frame>>
       \/ /\ ns \notin namespaces
          /\ Refused(c, "ip.SetupVeth", ENOENT)
       \/ /\ ns \in namespaces
          /\ VethIn(ns, name)
          /\ Refused(c, "ip.SetupVeth", EEXIST)
       \/ EnvFail(c, "ip.SetupVeth")

\* line 124: link, err := netlink.LinkByName(containerVeth.Name)
LinkByNameContainer(c) ==
    /\ pc[c] = "LinkByNameContainer"
    /\ \/ /\ VethIn(NetworkName(Nibble(c)), VethName(Nibble(c)))
          /\ Goto(c, "netlink.LinkByName(container)", Nil, "AddrAddV6")
          /\ UNCHANGED <<kernel, key, hostIface, frame>>
       \/ /\ ~VethIn(NetworkName(Nibble(c)), VethName(Nibble(c)))
          /\ Refused(c, "netlink.LinkByName(container)", ENOENT)
       \/ EnvFail(c, "netlink.LinkByName(container)")

\* One round of the loop of lines 140-146: netlink.AddrAdd(link, addr).
AddrAdd(c, step, addr, next) ==
    LET ns == NetworkName(Nibble(c))
        name == VethName(Nibble(c)) IN
    \/ /\ VethIn(ns, name)
       /\ netlink_AddrAdd(ns, name, addr)
       /\ Goto(c, step, Nil, next)
       /\ UNCHANGED <<bridges, namespaces, wgHost, wgNs, keyFiles, key, hostIface, frame>>
    \/ /\ ~VethIn(ns, name)
       /\ Refused(c, step, ENOENT)
    \/ EnvFail(c, step)

\* lines 129, 140-146, first round: ipnetv6 = &resource.Prefix
AddrAddV6(c) ==
    /\ pc[c] = "AddrAddV6"
    /\ AddrAdd(c, "netlink.AddrAdd(v6)", AddrV6(res[c].Prefix), "AddrAddV4")

\* As AddrAddV4, but the loop ends after the IPv6 prefix.
AddrAddV4Skipped(c) ==
    /\ pc[c] = "AddrAddV4"
    /\ Goto(c, "netlink.AddrAdd(v4)", Nil, "LinkByNameHost")
    /\ UNCHANGED <<kernel, key, hostIface, frame>>

\* lines 130-146, second round: ipnetv4 = 10.a.b.1/24; the handler returns nil
\* and netns.Do leaves the namespace.
AddrAddV4(c) ==
    /\ pc[c] = "AddrAddV4"
    /\ AddrAdd(c, "netlink.AddrAdd(v4)", AddrV4(Nibble(c)), "LinkByNameHost")

\* line 154: hostVeth, err := netlink.LinkByName(hostIface.Name)
LinkByNameHost(c) ==
    /\ pc[c] = "LinkByNameHost"
    /\ \/ /\ HostVeth(hostIface[c])
          /\ Goto(c, "netlink.LinkByName(host)", Nil, "AttachNic")
          /\ UNCHANGED <<kernel, key, hostIface, frame>>
       \/ /\ ~HostVeth(hostIface[c])
          /\ Refused(c, "netlink.LinkByName(host)", ENOENT)
       \/ EnvFail(c, "netlink.LinkByName(host)")

\* As AttachNic, but the error of bridge.AttachNic is not checked.
AttachNicUnchecked(c) ==
    LET br == BridgeName(Nibble(c)) IN
    /\ pc[c] = "AttachNic"
    /\ \/ /\ HostVeth(hostIface[c])
          /\ br \in bridges
          /\ bridge_AttachNic(hostIface[c], br)
          /\ Goto(c, "bridge.AttachNic", Nil, "WireguardNew")
          /\ UNCHANGED <<bridges, namespaces, wgHost, wgNs, keyFiles, key, hostIface, frame>>
       \/ /\ Goto(c, "bridge.AttachNic", EIO, "WireguardNew")
          /\ UNCHANGED <<kernel, key, hostIface, frame>>

\* line 163: bridge.AttachNic(hostVeth, br)
AttachNic(c) ==
    LET br == BridgeName(Nibble(c)) IN
    /\ pc[c] = "AttachNic"
    /\ \/ /\ HostVeth(hostIface[c])
          /\ br \in bridges
          /\ bridge_AttachNic(hostIface[c], br)
          /\ Goto(c, "bridge.AttachNic", Nil, "WireguardNew")
          /\ UNCHANGED <<bridges, namespaces, wgHost, wgNs, keyFiles, key, hostIface, frame>>
       \/ /\ ~(HostVeth(hostIface[c]) /\ br \in bridges)
          /\ Refused(c, "bridge.AttachNic", ENOENT)
       \/ EnvFail(c, "bridge.AttachNic")

\* line 168: wg, err := wireguard.New(wgName)
WireguardNew(c) ==
    LET name == WiregardName(Nibble(c)) IN
    /\ pc[c] = "WireguardNew"
    /\ \/ /\ name \notin wgHost
          /\ wireguard_New(name)
          /\ Goto(c, "wireguard.New", Nil, "SetLink")
          /\ UNCHANGED <<bridges, namespaces, veths, wgNs, keyFiles, key, hostIface, frame>>
       \/ /\ name \in wgHost
          /\ Refused(c, "wireguard.New", EEXIST)
       \/ EnvFail(c, "wireguard.New")

\* lines 177-181: namespace.SetLink(wg, netnsName), then return nil
SetLink(c) ==
    LET ns == NetworkName(Nibble(c))
        name == WiregardName(Nibble(c)) IN
    /\ pc[c] = "SetLink"
    /\ \/ /\ name \in wgHost /\ ns \in namespaces /\ ~WgIn(ns, name)
          /\ namespace_SetLink(name, ns)
          /\ CreateReturnedNil(c, "namespace.SetLink")
          /\ UNCHANGED <<bridges, namespaces, veths, keyFiles, key, hostIface, frame>>
       \/ /\ ~(name \in wgHost /\ ns \in namespaces)
          /\ Refused(c, "namespace.SetLink", ENOENT)
       \/ /\ name \in wgHost /\ ns \in namespaces /\ WgIn(ns, name)
          /\ Refused(c, "namespace.SetLink", EEXIST)
       \/ EnvFail(c, "namespace.SetLink")

\* ------------------------------------------------------------------ configureWG
\* lines 206-207: key, err = wireguard.LoadKey(storagePath); any error leads
\* to GenerateKey.
LoadKey(c) ==
    LET path == StoragePath(Nibble(c)) IN
    /\ pc[c] = "LoadKey"
    /\ \/ /\ keyFiles[path] # NoKey
          /\ key' = [key EXCEPT ![c] = keyFiles[path]]
          /\ Goto(c, "wireguard.LoadKey", Nil, "NamespaceGetByName")
       \/ /\ keyFiles[path] = NoKey
          /\ Goto(c, "wireguard.LoadKey", ENOENT, "GenerateKey")
          /\ UNCHANGED key
       \/ /\ keyFiles[path] # NoKey
          /\ Goto(c, "wireguard.LoadKey", EIO, "GenerateKey")
          /\ UNCHANGED key
    /\ UNCHANGED <<kernel, hostIface, frame>>

\* lines 208-211: key, err = wireguard.GenerateKey(storagePath)
GenerateKey(c) ==
    LET path == StoragePath(Nibble(c)) IN
    /\ pc[c] = "GenerateKey"
    /\ \/ /\ wireguard_GenerateKey(path, NewKey(cid[c]))
          /\ key' = [key EXCEPT ![c] = NewKey(cid[c])]
          /\ Goto(c, "wireguard.GenerateKey", Nil, "NamespaceGetByName")
          /\ UNCHANGED <<bridges, namespaces, veths, wgHost, wgNs, hostIface, frame>>
       \/ EnvFail(c, "wireguard.GenerateKey")

\* line 235: netns, err := namespace.GetByName(netnsName)
NamespaceGetByName(c) ==
    /\ pc[c] = "NamespaceGetByName"
    /\ \/ /\ NetworkName(Nibble(c)) \in namespaces
          /\ Goto(c, "namespace.GetByName", Nil, "WireguardGetByName")
          /\ UNCHANGED <<kernel, key, hostIface, frame>>
       \/ /\ NetworkName(Nibble(c)) \notin namespaces
          /\ Refused(c, "namespace.GetByName", ENOENT)
       \/ EnvFail(c, "namespace.GetByName")

\* lines 253, 242: netns.Do(handler) enters the namespace; the handler begins
\* with wireguard.GetByName(wgName).
WireguardGetByName(c) ==
    /\ pc[c] = "WireguardGetByName"
    /\ \/ /\ WgIn(NetworkName(Nibble(c)), WiregardName(Nibble(c)))
          /\ Goto(c, "wireguard.GetByName", Nil, "Configure")
          /\ UNCHANGED <<kernel, key, hostIface, frame>>
       \/ /\ ~WgIn(NetworkName(Nibble(c)), WiregardName(Nibble(c)))
          /\ Refused(c, "wireguard.GetByName", ENOENT)
       \/ EnvFail(c, "wireguard.GetByName")

\* net.IP.To16: the 16-byte form of an address of 4 or 16 bytes, else nil.
To16(ip) == IF ip.len \in {4, 16} THEN [ip EXCEPT !.len = 16] ELSE NilIP

\* lines 260-268: endpoint(peer)
endpoint(peer) ==
    IF To16(peer.Connection.IP) # NilIP
    THEN <<"[", peer.Connection.IP.s, "]:", peer.Connection.Port>>
    ELSE <<peer.Connection.IP.s, ":", peer.Connection.Port>>

\* The zero value of wireguard.Peer.
ZeroPeer == [PublicKey |-> "", Endpoint |-> <<>>, AllowedIPs |-> <<>>]

\* lines 228-231: fe80::<hex>/128 and 172.16.a.b/32 of the nibble
AllowedIPs(nibble) == <<<<"fe80::", Hex(nibble), "/128">>, <<"172.16.a.b/32", nibble[1], nibble[2]>>>>

\* As Peers, but the allowed IPs of an entry are derived from the peer.
PeersAllowedFromPeer(connected, nibble) ==
    [i \in 1..Len(connected) |->
        IF connected[i].Type # ConnTypeWireguard
        THEN ZeroPeer
        ELSE [PublicKey |-> connected[i].Connection.Key,
              Endpoint |-> endpoint(connected[i]),
              AllowedIPs |-> <<<<"peer", connected[i].Connection.IP.s>>>>]]

\* lines 215-233: peers := make([]wireguard.Peer, len(resource.Connected)); the
\* loop fills peers[i] for a peer of the wireguard type and skips the others.
Peers(connected, nibble) ==
    [i \in 1..Len(connected) |->
        IF connected[i].Type # ConnTypeWireguard
        THEN ZeroPeer
        ELSE [PublicKey |-> connected[i].Connection.Key,
              Endpoint |-> endpoint(connected[i]),
              AllowedIPs |-> AllowedIPs(nibble)]]

\* lines 248-257: wg.Configure(resource.LinkLocal.String(), key.String(), peers),
\* then return key, nil
Configure(c) ==
    LET ns == NetworkName(Nibble(c))
        name == WiregardName(Nibble(c)) IN
    /\ pc[c] = "Configure"
    /\ \/ /\ WgIn(ns, name)
          /\ wireguard_Configure(ns, name, res[c].LinkLocal, key[c],
                                 Peers(res[c].Connected, Nibble(c)))
          /\ ConfigureReturnedNil(c, "wg.Configure")
          /\ lastKey' = [lastKey EXCEPT ![StoragePath(Nibble(c))] = key[c]]
          /\ UNCHANGED <<bridges, namespaces, veths, wgHost, keyFiles, key, hostIface, frameK>>
       \/ /\ ~WgIn(ns, name)
          /\ Refused(c, "wg.Configure", ENOENT)
       \/ EnvFail(c, "wg.Configure")

\* ------------------------------------------------------------------ deleteNetResource
\* As BridgeDelete, but a bridge that is absent counts as deleted.
BridgeDeleteTolerant(c) ==
    LET br == BridgeName(Nibble(c)) IN
    /\ pc[c] = "BridgeDelete"
    /\ \/ /\ bridge_Delete(br)
          /\ Goto(c, "bridge.Delete", Nil, "NamespaceDelete")
          /\ UNCHANGED <<namespaces, wgHost, wgNs, keyFiles, key, hostIface, frame>>
       \/ EnvFail(c, "bridge.Delete")

\* lines 190-192: bridge.Delete(bridgeName)
BridgeDelete(c) ==
    LET br == BridgeName(Nibble(c)) IN
    /\ pc[c] = "BridgeDelete"
    /\ \/ /\ br \in bridges
          /\ bridge_Delete(br)
          /\ Goto(c, "bridge.Delete", Nil, "NamespaceDelete")
          /\ UNCHANGED <<namespaces, wgHost, wgNs, keyFiles, key, hostIface, frame>>
       \/ /\ br \notin bridges
          /\ Refused(c, "bridge.Delete", ENOENT)
       \/ EnvFail(c, "bridge.Delete")

\* line 193: return namespace.Delete(netnsName)
NamespaceDelete(c) ==
    LET ns == NetworkName(Nibble(c)) IN
    /\ pc[c] = "NamespaceDelete"
    /\ \/ /\ ns \in namespaces
          /\ namespace_Delete(ns)
          /\ Return(c, "namespace.Delete", Nil, RetNil)
          /\ UNCHANGED <<bridges, wgHost, keyFiles, key, hostIface, frame>>
       \/ /\ ns \notin namespaces
          /\ Refused(c, "namespace.Delete", ENOENT)
       \/ EnvFail(c, "namespace.Delete")

\* ------------------------------------------------------------------ specification
Next ==
    \E c \in Callers :
        \/ \E network \in Networks : ApplyNetResource(c, network)
        \/ \E network \in Networks : DeleteNetResource(c, network)
        \/ BridgeNew(c)
        \/ NamespaceCreate(c)
        \/ SetupVeth(c)
        \/ LinkByNameContainer(c)
        \/ AddrAddV6(c)
        \/ AddrAddV4(c)
        \/ LinkByNameHost(c)
        \/ AttachNic(c)
        \/ WireguardNew(c)
        \/ SetLink(c)
        \/ LoadKey(c)
        \/ GenerateKey(c)
        \/ NamespaceGetByName(c)
        \/ WireguardGetByName(c)
        \/ Configure(c)
        \/ BridgeDelete(c)
        \/ NamespaceDelete(c)

Spec == Init /\ [][Next]_vars

\* ------------------------------------------------------------------ identityd
\* main of the identity daemon (src/unnamed/part_001). Each call of main is one
\* step; events lists the calls the flow comment of main names, in the order
\* main makes them.
MaxRounds == 2

networker == <<kernel, nodeID, pc, op, net, res, key, hostIface, ret, log, cid, pre,
               calls, prev, overlap, lastKey>>

BootMethodFList == "flist"
BootMethodOther == "other"
NotFromFlist == <<"not booted from flist">>

\* log.Fatal(): the process exits.
Fatal == idpc' = "fatal" /\ UNCHANGED <<boot, cancelled, installed, events, rounds, networker>>
IdGoto(next) == idpc' = next /\ UNCHANGED <<boot, cancelled, installed, events, rounds, networker>>
Call(e, next) ==
    /\ idpc' = next
    /\ events' = Append(events, e)
    /\ UNCHANGED <<boot, cancelled, installed, rounds, networker>>

\* lines 95-98: zinit.New(zinitSocket)
ZinitNew ==
    /\ idpc = "main"
    /\ \/ IdGoto("NewRedisClient")
       \/ Fatal

\* lines 100-104: zbus.NewRedisClient(broker); main returns on an error
NewRedisClient ==
    /\ idpc = "NewRedisClient"
    /\ \/ IdGoto("DetectBootMethod")
       \/ IdGoto("returned")

\* lines 106-113: flister, upgrader, bootMethod := upgrade.DetectBootMethod()
DetectBootMethod ==
    /\ idpc = "DetectBootMethod"
    /\ idpc' = "identityMgr"
    /\ boot' \in {BootMethodFList, BootMethodOther}
    /\ UNCHANGED <<cancelled, installed, events, rounds, networker>>

\* lines 117-120: identityMgr(identityRoot)
IdentityMgr ==
    /\ idpc = "identityMgr"
    /\ \/ IdGoto("bcdbClient")
       \/ Fatal

\* lines 122-125: bcdbClient()
BcdbClient ==
    /\ idpc = "bcdbClient"
    /\ \/ IdGoto("version")
       \/ Fatal

\* lines 127-136: the running version, read from the upgrader when booted
\* from an flist
StartVersion ==
    /\ idpc = "version"
    /\ \/ IdGoto("FarmID")
       \/ boot = BootMethodFList /\ Fatal

\* lines 138-142: idMgr.NodeID(), idMgr.FarmID()
FarmID ==
    /\ idpc = "FarmID"
    /\ \/ IdGoto("Retry")
       \/ Fatal

\* The version main registers: the installed one, or the fixed text.
VersionString == IF boot = BootMethodFList THEN installed ELSE NotFromFlist

\* lines 144-150: backoff.Retry(registerNode); when the retries give up main
\* goes on all the same
RetryRegisterNode ==
    /\ idpc = "Retry"
    /\ Call(<<"register", VersionString>>, "NewRedisServer")

\* lines 153-156: zbus.NewRedisServer(module, broker, 1)
NewRedisServer ==
    /\ idpc = "NewRedisServer"
    /\ \/ IdGoto("Run")
       \/ Fatal

\* lines 158-172: server.Register, ctx := utils.WithSignal, go server.Run(ctx)
ServerRun ==
    /\ idpc = "Run"
    /\ Call(<<"serve">>, "bootMethod")

\* lines 174-182: not booted from an flist: wait for ctx.Done() and return;
\* otherwise start the ticker
BootMethodCheck ==
    /\ idpc = "bootMethod"
    /\ \/ boot # BootMethodFList /\ IdGoto("wait")
       \/ boot = BootMethodFList /\ Call(<<"watch">>, "SafeUpgrade")

\* A signal cancels ctx (utils.WithSignal, line 160).
Cancel ==
    /\ idpc \in {"bootMethod", "wait", "SafeUpgrade", "loopVersion", "RegisterNode", "select"}
    /\ ~cancelled
    /\ cancelled' = TRUE
    /\ UNCHANGED <<idpc, boot, installed, events, rounds, networker>>

\* lines 176-177: <-ctx.Done(); return
WaitDone ==
    /\ idpc = "wait"
    /\ cancelled
    /\ IdGoto("returned")

\* lines 185-192: SafeUpgrade(&upgrader): nil or an error that is only logged,
\* with or without a new version installed, or ErrRestartNeeded and return
SafeUpgrade ==
    /\ idpc = "SafeUpgrade"
    /\ rounds < MaxRounds
    /\ rounds' = rounds + 1
    /\ events' = Append(events, <<"upgrade">>)
    /\ \/ idpc' = "loopVersion" /\ installed' = installed
       \/ idpc' = "loopVersion" /\ installed' = installed + 1
       \/ idpc' = "returned" /\ installed' = installed + 1
    /\ UNCHANGED <<boot, cancelled, networker>>

\* lines 194-199: upgrader.Version()
Version ==
    /\ idpc = "loopVersion"
    /\ \/ IdGoto("RegisterNode")
       \/ Fatal

\* lines 201-203: idStore.RegisterNode(nodeID, farmID, version.String()); an
\* error is only logged
RegisterNode ==
    /\ idpc = "RegisterNode"
    /\ Call(<<"register", installed>>, "select")

\* lines 205-206: case <-ticker.C: the loop goes round
SelectTicker ==
    /\ idpc = "select"
    /\ IdGoto("SafeUpgrade")

\* lines 207-209: case <-ctx.Done(): break, which leaves the select statement;
\* the for statement of line 184 goes round
SelectDone ==
    /\ idpc = "select"
    /\ cancelled
    /\ Call(<<"ctx.Done">>, "SafeUpgrade")

NextId ==
    \/ ZinitNew
    \/ NewRedisClient
    \/ DetectBootMethod
    \/ IdentityMgr
    \/ BcdbClient
    \/ StartVersion
    \/ FarmID
    \/ RetryRegisterNode
    \/ NewRedisServer
    \/ ServerRun
    \/ BootMethodCheck
    \/ Cancel
    \/ WaitDone
    \/ SafeUpgrade
    \/ Version
    \/ RegisterNode
    \/ SelectTicker
    \/ SelectDone

SpecId == Init /\ [][NextId]_vars

\* ------------------------------------------------------------------ claims
\* C1: an apply runs the phases create, key obtain, mesh configuration in this
\* order: no step of a phase runs before the phase before it has succeeded,
\* and the first failure of a phase ends the call, which returns that error.
C1_PhaseOrder ==
    \A c \in Callers : op[c] = "apply" =>
        /\ \A i, j \in 1..Len(log[c]) : i < j => Phase(log[c][i][1]) <= Phase(log[c][j][1])
        /\ (\E i \in 1..Len(log[c]) : Phase(log[c][i][1]) >= 2)
              => Ran(c, "namespace.SetLink", Nil)
        /\ (\E i \in 1..Len(log[c]) : Phase(log[c][i][1]) = 3) => HasKey(c)
        /\ \A i \in 1..Len(log[c]) : PhaseFailure(log[c][i]) =>
              /\ i = Len(log[c])
              /\ pc[c] = "done"
              /\ ret[c] = Err(log[c][i][1], log[c][i][2])
        /\ (pc[c] = "done" /\ ret[c] = RetNil) => Ran(c, "wg.Configure", Nil)

\* An apply whose create phase succeeded and whose key phase failed has returned
\* the error of GenerateKey and has run no step of the configuration.
C1_Witness ==
    \E c \in Callers :
        /\ op[c] = "apply" /\ pc[c] = "done"
        /\ Ran(c, "namespace.SetLink", Nil)
        /\ ret[c] = Err("wireguard.GenerateKey", EIO)

\* C2: a call on a network without a resource of this node returns the
\* no-local-resource error at once (and so changes nothing).
C2_NoLocalResource ==
    \A c \in Callers :
        (pc[c] # "idle" /\ FindResource(net[c], NodeIdentity) = NoRes)
            => (pc[c] = "done" /\ ret[c] = ErrNoLocal)

\* The nibbles of the resources that belong to this node.
OwnNibbles ==
    UNION {{NewNibble(n.Resources[i].Prefix, n.AllocationNR) :
                i \in {k \in 1..Len(n.Resources) : n.Resources[k].NodeID = NodeIdentity}} :
           n \in Networks}

\* C3: every kernel object and key file carries a name derived from a resource
\* whose NodeID is this node's identity.
C3_OnlyOwnResource ==
    /\ bridges \subseteq {BridgeName(nb) : nb \in OwnNibbles}
    /\ namespaces \subseteq {NetworkName(nb) : nb \in OwnNibbles}
    /\ \A v \in veths : v.name \in {VethName(nb) : nb \in OwnNibbles}
    /\ wgHost \subseteq {WiregardName(nb) : nb \in OwnNibbles}
    /\ \A w \in wgNs : w.name \in {WiregardName(nb) : nb \in OwnNibbles}
    /\ \A p \in DOMAIN keyFiles :
          keyFiles[p] # NoKey => p \in {StoragePath(nb) : nb \in OwnNibbles}

\* The key under which calls on one resource are to be serialized.
ResourceKey(c) == <<net[c].NetID, net[c].AllocationNR, res[c].NodeID>>

\* C4: no two calls on the same resource key are in flight at the same time.
C4_AtMostOneInFlight ==
    \A c, d \in Callers :
        (c # d /\ InFlight(c) /\ InFlight(d)) => ResourceKey(c) # ResourceKey(d)

\* C5: two key-obtain executions for the same key path that are in progress
\* together, neither of which met an unreadable key file, hold the same key.
C5_OneKey ==
    \A c, d \in Callers :
        (/\ c # d /\ InFlight(c) /\ InFlight(d)
         /\ op[c] = "apply" /\ op[d] = "apply"
         /\ StoragePath(Nibble(c)) = StoragePath(Nibble(d))
         /\ HasKey(c) /\ HasKey(d)
         /\ ~Ran(c, "wireguard.LoadKey", EIO) /\ ~Ran(d, "wireguard.LoadKey", EIO))
            => key[c] = key[d]

\* C6: as long as calls follow one another, a key file that exists keeps its
\* content.
C6_NeverOverwritten ==
    [][~overlap' =>
         \A p \in DOMAIN keyFiles : keyFiles[p] # NoKey => keyFiles'[p] = keyFiles[p]]_vars

\* The objects of each kind that carry the names of the nibble.
VethsOf(nb) == {v \in veths : v.name = VethName(nb)}
WgCount(nb) ==
    (IF WiregardName(nb) \in wgHost THEN 1 ELSE 0)
        + Cardinality({w \in wgNs : w.name = WiregardName(nb)})

\* C7: as long as calls follow one another, (1) once createNetworkResource of
\* an apply has returned nil, the bridge and the namespace exist, the one veth
\* pair has its host end on the bridge and its namespace end holds the prefix
\* and 10.a.b.1/24, and the one tunnel interface is inside the namespace; and
\* (2) there is never more than one veth pair or tunnel interface of these names.
C7_ExactlyOne ==
    ~overlap =>
        /\ \A c \in Callers :
              (op[c] = "apply" /\ Ran(c, "namespace.SetLink", Nil)) =>
                  /\ BridgeName(Nibble(c)) \in bridges
                  /\ NetworkName(Nibble(c)) \in namespaces
                  /\ VethsOf(Nibble(c)) =
                        {[ns |-> NetworkName(Nibble(c)), name |-> VethName(Nibble(c)),
                          host |-> hostIface[c],
                          addrs |-> <<AddrV6(res[c].Prefix), AddrV4(Nibble(c))>>,
                          master |-> BridgeName(Nibble(c))]}
                  /\ WiregardName(Nibble(c)) \notin wgHost
                  /\ Cardinality({w \in wgNs : w.ns = NetworkName(Nibble(c))
                                               /\ w.name = WiregardName(Nibble(c))}) = 1
        /\ \A nb \in AllNibbles :
              /\ Cardinality(VethsOf(nb)) <= 1
              /\ WgCount(nb) <= 1

\* An apply has returned nil: its create, key and configure phases are done.
C7_Witness ==
    \E c \in Callers :
        ~overlap /\ op[c] = "apply" /\ pc[c] = "done" /\ ret[c] = RetNil

\* What a step that succeeded leaves behind.
StepEffect(c, step) ==
    LET nb == Nibble(c)
        mine == {v \in veths : v.ns = NetworkName(nb) /\ v.name = VethName(nb)} IN
    CASE step = "bridge.New" -> BridgeName(nb) \in bridges
      [] step = "namespace.Create" -> NetworkName(nb) \in namespaces
      [] step = "ip.SetupVeth" -> \E v \in mine : v.host = hostIface[c]
      [] step = "netlink.AddrAdd(v6)" ->
            \E v \in mine : Len(v.addrs) >= 1 /\ v.addrs[1] = AddrV6(res[c].Prefix)
      [] step = "netlink.AddrAdd(v4)" ->
            \E v \in mine : v.addrs = <<AddrV6(res[c].Prefix), AddrV4(nb)>>
      [] step = "bridge.AttachNic" -> \E v \in mine : v.master = BridgeName(nb)
      [] step = "wireguard.New" ->
            WiregardName(nb) \in wgHost \/ WgIn(NetworkName(nb), WiregardName(nb))
      [] step = "namespace.SetLink" ->
            WiregardName(nb) \notin wgHost /\ WgIn(NetworkName(nb), WiregardName(nb))
      [] step = "wireguard.GenerateKey" ->
            key[c] # NoKey /\ keyFiles[StoragePath(nb)] = key[c]
      [] OTHER -> TRUE

Produced(c) ==
    \A i \in 1..Len(log[c]) : log[c][i][2] = Nil => StepEffect(c, log[c][i][1])

\* C8: the steps of createNetworkResource run in the order bridge, namespace,
\* veth pair, IPv6 prefix, 10.a.b.1/24, attach to the bridge, tunnel interface,
\* move into the namespace; a step runs only after all steps before it
\* succeeded, the first failure is returned, and (as long as calls follow one
\* another) what the steps so far created is in place while the call goes on.
C8_CreateOrder ==
    \A c \in Callers : op[c] = "apply" =>
        /\ \A i \in 1..Len(log[c]) :
              i <= Len(CreateOrder) =>
                  /\ log[c][i][1] = CreateOrder[i]
                  /\ \A j \in 1..(i - 1) : log[c][j][2] = Nil
                  /\ log[c][i][2] # Nil =>
                        /\ Len(log[c]) = i
                        /\ pc[c] = "done"
                        /\ ret[c] = Err(CreateOrder[i], log[c][i][2])
        /\ (InFlight(c) /\ Len(log[c]) < Len(CreateOrder))
              => pc[c] \in {"BridgeNew", "NamespaceCreate", "SetupVeth", "LinkByNameContainer",
                            "AddrAddV6", "AddrAddV4", "LinkByNameHost", "AttachNic",
                            "WireguardNew", "SetLink"}
        /\ (InFlight(c) /\ ~overlap) => Produced(c)

\* createNetworkResource is about to move the tunnel interface, which is on
\* the host, into the namespace.
C8_Witness ==
    \E c \in Callers :
        /\ ~overlap /\ op[c] = "apply" /\ pc[c] = "SetLink"
        /\ WiregardName(Nibble(c)) \in wgHost

ApplyFailed(c) ==
    op[c] = "apply" /\ pc[c] = "done" /\ ret[c] \notin {RetNil, ErrNoLocal}

\* C9: when an apply returns an error and calls follow one another, everything
\* the steps before the failure created is still in place.
C9_NoRollback ==
    \A c \in Callers : (ApplyFailed(c) /\ ~overlap) => Produced(c)

\* An apply failed in its last step, after it had persisted a new key.
C9_Witness ==
    \E c \in Callers :
        /\ ApplyFailed(c) /\ ~overlap
        /\ Ran(c, "wireguard.GenerateKey", Nil)
        /\ ret[c] = Err("wg.Configure", EIO)

\* Nothing that carries the names of the nibble exists.
NoObjects(nb) ==
    /\ BridgeName(nb) \notin bridges
    /\ NetworkName(nb) \notin namespaces
    /\ VethsOf(nb) = {}
    /\ WgCount(nb) = 0

\* C10: a delete that follows a failed apply and returns nil leaves no bridge,
\* namespace, veth end or tunnel interface of the resource behind.
C10_DeleteCleansUp ==
    \A c \in Callers :
        (/\ ~overlap /\ op[c] = "delete" /\ pc[c] = "done"
         /\ ret[c] = RetNil /\ pre[c] = <<"apply", "failed">>)
            => NoObjects(Nibble(c))

\* C11: a delete deletes the bridge first and the namespace second; a bridge or
\* namespace that does not exist makes the call return an error, and after a
\* failed bridge deletion the call returns without touching the namespace.
C11_DeleteOrder ==
    [][\A c \in Callers :
          (op[c] = "delete" /\ InFlight(c) /\ pc'[c] # pc[c]) =>
              /\ pc[c] \in {"BridgeDelete", "NamespaceDelete"}
              /\ pc[c] = "BridgeDelete" =>
                    /\ namespaces' = namespaces
                    /\ log[c] = <<>>
                    /\ BridgeName(Nibble(c)) \notin bridges =>
                          /\ pc'[c] = "done"
                          /\ ret'[c] \in {Err("bridge.Delete", ENOENT), Err("bridge.Delete", EIO)}
                    /\ pc'[c] = "NamespaceDelete" =>
                          /\ BridgeName(Nibble(c)) \in bridges
                          /\ BridgeName(Nibble(c)) \notin bridges'
                    /\ pc'[c] = "done" => ret'[c] # RetNil
              /\ pc[c] = "NamespaceDelete" =>
                    /\ log[c] = <<<<"bridge.Delete", Nil>>>>
                    /\ pc'[c] = "done"
                    /\ bridges' = bridges
                    /\ NetworkName(Nibble(c)) \notin namespaces =>
                          ret'[c] \in {Err("namespace.Delete", ENOENT),
                                       Err("namespace.Delete", EIO)}
                    /\ ret'[c] = RetNil =>
                          /\ NetworkName(Nibble(c)) \in namespaces
                          /\ NetworkName(Nibble(c)) \notin namespaces']_vars

\* A delete found no bridge and returned that error; the namespace, which
\* exists, was left alone.
C11_Witness ==
    \E c \in Callers :
        /\ op[c] = "delete" /\ pc[c] = "done"
        /\ log[c] = <<<<"bridge.Delete", ENOENT>>>>
        /\ ret[c] = Err("bridge.Delete", ENOENT)
        /\ NetworkName(Nibble(c)) \in namespaces

\* C12: a delete leaves the key files alone, and (calls following one another)
\* an apply that returns nil after an earlier apply of the resource returned
\* nil has the same private key as that one.
C12_SameKeyAgain ==
    [][\A c \in Callers :
          /\ (op[c] = "delete" /\ InFlight(c) /\ pc'[c] # pc[c]) => keyFiles' = keyFiles
          /\ (/\ ~overlap /\ op[c] = "apply" /\ pc[c] = "Configure"
              /\ pc'[c] = "done" /\ ret'[c] = RetNil
              /\ lastKey[StoragePath(Nibble(c))] # NoKey)
                => key[c] = lastKey[StoragePath(Nibble(c))]]_vars

\* The entries configureWG is to hand to Configure: one per peer of the
\* wireguard type, in order.
IsTunnelPeer(peer) == peer.Type = ConnTypeWireguard
TunnelPeers(connected) == SelectSeq(connected, IsTunnelPeer)

\* C13: the peer list of a configured tunnel interface has one entry per peer
\* of the wireguard type, in the order of Connected, and no other entry.
C13_OnlyTunnelPeers ==
    \A w \in wgNs : w.conf # Unconfigured =>
        /\ Len(w.conf.peers) = Len(TunnelPeers(Mesh))
        /\ \A i \in 1..Len(w.conf.peers) :
              /\ w.conf.peers[i] # ZeroPeer
              /\ i <= Len(TunnelPeers(Mesh))
                    => w.conf.peers[i].PublicKey = TunnelPeers(Mesh)[i].Connection.Key

\* C14: the endpoint of a configured peer is "[ip]:port" for an IPv6 address
\* and "ip:port" for an IPv4 address.
C14_EndpointFormat ==
    \A w \in wgNs : w.conf # Unconfigured =>
        \A i \in 1..Len(w.conf.peers) :
            (i <= Len(Mesh) /\ IsTunnelPeer(Mesh[i])) =>
                LET ip == Mesh[i].Connection.IP
                    port == Mesh[i].Connection.Port IN
                /\ ip.fam = "v6" => w.conf.peers[i].Endpoint = <<"[", ip.s, "]:", port>>
                /\ ip.fam = "v4" => w.conf.peers[i].Endpoint = <<ip.s, ":", port>>

\* The number of entries of the call's log for the step.
Count(c, step) == Cardinality({i \in 1..Len(log[c]) : log[c][i][1] = step})

\* C17: an apply that returns nil has called Configure once, on the interface
\* named from the Nibble inside the resource's namespace, with the resource's
\* LinkLocal, the whole peer list and the private key that the key file holds
\* when the call returns.
C17_ConfiguredWithStoredKey ==
    [][\A c \in Callers :
          (/\ op[c] = "apply" /\ pc[c] = "Configure"
           /\ pc'[c] = "done" /\ ret'[c] = RetNil)
            => /\ Count(c, "wg.Configure")' = 1
               /\ \E w \in wgNs' :
                     /\ w.ns = NetworkName(Nibble(c))
                     /\ w.name = WiregardName(Nibble(c))
                     /\ w.conf = [key |-> key[c], addr |-> res[c].LinkLocal,
                                  peers |-> Peers(res[c].Connected, Nibble(c))]
               /\ key[c] = keyFiles'[StoragePath(Nibble(c))]]_vars

\* C18: every entry made for a tunnel peer carries the two allowed-IP entries
\* derived from the resource's own Nibble, whatever the peer.
C18_AllowedFromOwnNibble ==
    \A nb \in AllNibbles : \A w \in wgNs :
        (w.name = WiregardName(nb) /\ w.conf # Unconfigured) =>
            \A i \in 1..Len(w.conf.peers) :
                (i <= Len(Mesh) /\ IsTunnelPeer(Mesh[i])) =>
                    w.conf.peers[i].AllowedIPs =
                        <<<<"fe80::", Hex(nb), "/128">>,
                          <<"172.16.a.b/32", nb[1], nb[2]>>>>

\* An interface is configured with two tunnel peers of different public keys
\* and different endpoints.
C18_Witness ==
    \E w \in wgNs : \E i, j \in 1..Len(w.conf.peers) :
        /\ w.conf # Unconfigured
        /\ w.conf.peers[i] # ZeroPeer /\ w.conf.peers[j] # ZeroPeer
        /\ w.conf.peers[i].PublicKey # w.conf.peers[j].PublicKey
        /\ w.conf.peers[i].Endpoint # w.conf.peers[j].Endpoint
        /\ w.conf.peers[i].AllowedIPs = w.conf.peers[j].AllowedIPs

\* The places of the calls of the kind in events.
Places(kind) == {i \in 1..Len(events) : events[i][1] = kind}
Earlier(kindA, kindB) ==
    \A j \in Places(kindB) : \E i \in Places(kindA) : i < j

\* C15: booted from an flist, the daemon upgrades before it registers the
\* node, registers before it starts the zbus server, starts the server before
\* the watcher, and registers the version in place after every upgrade that
\* main goes on from.
C15_StartupFlow ==
    boot = BootMethodFList =>
        /\ Earlier("upgrade", "register")
        /\ Earlier("register", "serve")
        /\ Earlier("serve", "watch")
        /\ \A i \in Places("upgrade") :
              i < Len(events) => events[i + 1][1] = "register"

\* C19: main makes no SafeUpgrade and no RegisterNode call once the loop has
\* received the cancellation; not booted from an flist, main never upgrades
\* and returns from its wait when the context is cancelled.
C19_StopsOnCancel ==
    [][/\ \A i \in Places("ctx.Done")' : \A j \in Places("upgrade")' \cup Places("register")' : j < i
       /\ boot = BootMethodOther => Places("upgrade")' = {}
       /\ (idpc = "wait" /\ idpc' # idpc) => (cancelled /\ idpc' = "returned")]_vars

====
